---- MODULE Spec2Model ----
(***************************************************************************)
(* A model of HTMLTemplater (src/README.md, lines 65-268): a template      *)
(* element whose content is deep-cloned once per mapper, mutated by the    *)
(* mapper, tracked in `instances` and appended to a parent node.           *)
(*                                                                         *)
(* The DOM is modelled as an ordered forest: `kids` gives every parent its *)
(* ordered child list, `elem` gives every produced node its element data.  *)
(* Strings are sequences of tokens, so that concatenation and template     *)
(* literals are computed rather than assumed.                              *)
(***************************************************************************)
EXTENDS Integers, Sequences, FiniteSets, TLC

\* Bound on the number of clones the templater may create.
MaxClones == 2

\* Bound on the number of arguments of one instantiate call.
MaxArgs == 2

-----------------------------------------------------------------------------
(* Values                                                                  *)

\* JavaScript null / undefined, as an attribute value or a query result.
Null == <<"<null>">>

\* The empty string.
Empty == <<>>

\* String(value): null prints as the word null.
String(v) == IF v = Null THEN <<"null">> ELSE v

-----------------------------------------------------------------------------
(* Node references                                                         *)

Ref(kind, n) == [kind |-> kind, n |-> n]

\* No node (a null parentNode / parentElement / querySelector result).
None == Ref("none", 0)

\* document.body, the parent of the template in the test documents.
Body == Ref("body", 0)

\* <div id="container">, a second container in the document.
Other == Ref("container", 0)

\* The <template> element.
Tpl == Ref("template", 0)

\* The DocumentFragment returned by the k-th cloneNode(true).
Frag(k) == Ref("fragment", k)

\* The i-th node created by cloning.
Node(i) == Ref("node", i)

-----------------------------------------------------------------------------
(* Elements                                                                *)

\* Content attributes an element of the model can carry.
AttrNames == {"class", "title", "data-id", "data-new"}

\* Names that are properties of every element (`attribute in el`), with the
\* content attribute each one reflects; textContent reflects the text, and
\* classList forwards an assignment to the class attribute.
PropNames == {"className", "title", "textContent", "classList"}

\* Keys of the inline style object of an element.
StyleKeys == {"color", "background"}

El(tag, cls, dataId, text) ==
    [tag |-> tag,
     attrs |-> [a \in AttrNames |->
                  CASE a = "class" -> cls
                    [] a = "title" -> Null
                    [] a = "data-id" -> dataId
                    [] a = "data-new" -> Null],
     style |-> [k \in StyleKeys |-> Null],
     text |-> text]

\* The contents a <template> may have: sequences of top-level elements.
Sources ==
    { << El("br", Null, Null, Empty), El("input", <<"item">>, <<"0">>, Empty) >>,
      << El("div", Null, Null, <<"Item">>) >> }

\* The element data of the fixed elements of the document.
StaticEl(r) ==
    CASE r = Body  -> El("body", Null, Null, Empty)
      [] r = Other -> El("div", Null, Null, Empty)
      [] r = Tpl   -> El("template", Null, Null, Empty)

-----------------------------------------------------------------------------
(* Mappers                                                                 *)

\* A TemplateAttributeChange: a literal, null, a function of the previous
\* value, an object (for style, dataset and classList) or an array (for
\* classList); the items of an object or array are [key, value] pairs.
Lit(v) == [kind |-> "literal", val |-> v, obj |-> <<>>]
NullChange == [kind |-> "null", val |-> Null, obj |-> <<>>]
Fn(name) == [kind |-> "function", val |-> <<name>>, obj |-> <<>>]
Obj(entries) == [kind |-> "object", val |-> Null, obj |-> entries]
Arr(items) ==
    [kind |-> "array", val |-> Null, obj |-> [i \in DOMAIN items |-> <<ToString(i - 1), items[i]>>]]

\* One [attribute, value] entry of a TemplateAttributeMapper.
Attr(attribute, value) == [attribute |-> attribute, value |-> value]

\* A TemplateAttributeMapper: an object of attribute entries, or a value
\* that is no object of entries (null).
Attrs(entries) == [kind |-> "attrs", entries |-> entries]
NullMapper == [kind |-> "null", entries |-> <<>>]
UndefinedMapper == [kind |-> "undefined", entries |-> <<>>]

\* One [query, attributes] entry of a TemplateElementMapper.
Sel(query, attributes) == [query |-> query, attributes |-> attributes]

\* element.matches(query), for the selectors of the model.
Matches(e, query) ==
    CASE query = "*"     -> TRUE
      [] query = ".item" -> e.attrs["class"] = <<"item">>
      [] OTHER           -> e.tag = query

\* A slip: the function is given el.getAttribute(attribute) for every name.
CurrentValueAttribute(e, attribute) ==
    IF attribute \in AttrNames /\ e.attrs[attribute] # Null
    THEN Lit(e.attrs[attribute])
    ELSE NullChange

\* el[attribute] ?? el.getAttribute(attribute)
CurrentValue(e, attribute) ==
    CASE attribute = "className"   ->
            Lit(IF e.attrs["class"] = Null THEN Empty ELSE e.attrs["class"])
      [] attribute = "title"       ->
            Lit(IF e.attrs["title"] = Null THEN Empty ELSE e.attrs["title"])
      [] attribute = "textContent" -> Lit(e.text)
      [] attribute = "classList"   ->
            Lit(IF e.attrs["class"] = Null THEN Empty ELSE e.attrs["class"])
      [] attribute = "dataset"     ->
            Obj(SelectSeq(<< <<"id", e.attrs["data-id"]>>,
                             <<"new", e.attrs["data-new"]>> >>,
                          LAMBDA kv : kv[2] # Null))
      [] attribute = "style"       ->
            Obj(SelectSeq(<< <<"color", e.style["color"]>>,
                             <<"background", e.style["background"]>> >>,
                          LAMBDA kv : kv[2] # Null))
      [] attribute \in AttrNames   ->
            IF e.attrs[attribute] = Null THEN NullChange ELSE Lit(e.attrs[attribute])
      [] OTHER                     -> NullChange

\* The mapper functions of the model, applied to the previous value.
CallFn(name, previous) ==
    CASE name = "suffix" -> Lit(String(previous.val) \o <<"-2">>)
      [] name = "toNull" -> NullChange
      [] name = "mergeBackground" ->
            Obj(previous.obj \o << <<"background", <<"blue">>>> >>)
      [] OTHER           -> previous

RECURSIVE Join(_)
\* Array.prototype.join: the items' values with commas in between
Join(items) ==
    IF items = <<>> THEN Empty
    ELSE IF Len(items) = 1 THEN String(items[1][2])
    ELSE String(items[1][2]) \o <<",">> \o Join(Tail(items))

\* String(resolvedValue)
ChangeString(c) ==
    CASE c.kind = "object" -> <<"[object Object]">>
      [] c.kind = "array"  -> Join(c.obj)
      [] OTHER             -> String(c.val)

\* A slip: null is not told apart and goes to setAttribute as a string.
SetAttributeNull(e, attribute) ==
    IF attribute \in AttrNames THEN [e EXCEPT !.attrs[attribute] = <<"null">>] ELSE e

\* el.removeAttribute(attribute)
RemoveAttribute(e, attribute) ==
    CASE attribute \in AttrNames -> [e EXCEPT !.attrs[attribute] = Null]
      [] attribute = "style"     -> [e EXCEPT !.style = [k \in StyleKeys |-> Null]]
      [] OTHER                   -> e

\* A slip: el.style is replaced by the value, so that the declarations the
\* value does not name are lost.
ReplaceStyle(e, entries, i) ==
    [e EXCEPT !.style =
        [k \in StyleKeys |->
           IF \E n \in DOMAIN entries : entries[n][1] = k
           THEN entries[CHOOSE n \in DOMAIN entries :
                          /\ entries[n][1] = k
                          /\ \A o \in DOMAIN entries : entries[o][1] = k => o <= n][2]
           ELSE Null]]

RECURSIVE AssignStyle(_, _, _)
\* Object.assign(el.style, resolvedValue)
AssignStyle(e, entries, i) ==
    IF i > Len(entries) THEN e
    ELSE AssignStyle([e EXCEPT !.style[entries[i][1]] = entries[i][2]], entries, i + 1)

RECURSIVE AssignDataset(_, _, _)
\* Object.assign(el.dataset, resolvedValue): dataset.id is the attribute
\* data-id, dataset.new the attribute data-new
AssignDataset(e, entries, i) ==
    IF i > Len(entries) THEN e
    ELSE AssignDataset(
            IF ("data-" \o entries[i][1]) \in AttrNames
            THEN [e EXCEPT !.attrs["data-" \o entries[i][1]] = String(entries[i][2])]
            ELSE e,
            entries, i + 1)

\* el[attribute] = resolvedValue, for the properties of the model
SetProperty(e, attribute, c) ==
    CASE attribute = "className"   -> [e EXCEPT !.attrs["class"] = ChangeString(c)]
      [] attribute = "title"       -> [e EXCEPT !.attrs["title"] = ChangeString(c)]
      [] attribute = "textContent" -> [e EXCEPT !.text = ChangeString(c)]
      [] attribute = "classList"   -> [e EXCEPT !.attrs["class"] = ChangeString(c)]

\* el.setAttribute(attribute, String(resolvedValue))
SetAttribute(e, attribute, c) ==
    IF attribute \in AttrNames
    THEN [e EXCEPT !.attrs[attribute] = ChangeString(c)]
    ELSE e

\* One iteration of the loop of applyAttributeMapper.
ApplyAttribute(e, attribute, value) ==
    LET resolvedValue == IF value.kind = "function"
                         THEN CallFn(value.val[1], CurrentValue(e, attribute))
                         ELSE value
    IN  CASE resolvedValue.kind = "null" -> RemoveAttribute(e, attribute)
          [] resolvedValue.kind # "null" /\ attribute = "style"
               /\ resolvedValue.kind = "object" -> AssignStyle(e, resolvedValue.obj, 1)
          [] resolvedValue.kind # "null" /\ attribute = "dataset"
               /\ resolvedValue.kind = "object" -> AssignDataset(e, resolvedValue.obj, 1)
          [] OTHER ->
               IF attribute \in PropNames
               THEN SetProperty(e, attribute, resolvedValue)
               ELSE SetAttribute(e, attribute, resolvedValue)

RECURSIVE ApplyEntries(_, _, _)
ApplyEntries(e, entries, i) ==
    IF i > Len(entries) THEN e
    ELSE ApplyEntries(ApplyAttribute(e, entries[i].attribute, entries[i].value),
                      entries, i + 1)

\* applyAttributeMapper(el, attributeMapper): the element after the loop over
\* Object.entries(attributeMapper).
applyAttributeMapper(e, attributeMapper) == ApplyEntries(e, attributeMapper.entries, 1)

\* Object.entries(attributeMapper) raises a TypeError for null and for
\* undefined.
MapperThrows(attributeMapper) == attributeMapper.kind \in {"null", "undefined"}

-----------------------------------------------------------------------------
(* The DOM tree                                                            *)

Range(seq) == {seq[i] : i \in DOMAIN seq}

\* parent.childNodes
KidsOf(ks, p) == IF p \in DOMAIN ks THEN ks[p] ELSE <<>>

\* node.parentNode
ParentOf(ks, n) ==
    IF \E p \in DOMAIN ks : n \in Range(ks[p])
    THEN CHOOSE p \in DOMAIN ks : n \in Range(ks[p])
    ELSE None

\* node.parentElement: the parent, unless it is no element (a fragment)
ParentElementOf(ks, n) ==
    IF ParentOf(ks, n).kind = "fragment" THEN None ELSE ParentOf(ks, n)

\* node.remove()
Remove(ks, n) == [p \in DOMAIN ks |-> SelectSeq(ks[p], LAMBDA x : x # n)]

RECURSIVE Descendants(_, _)
\* The descendants of p in document order.
Descendants(ks, p) ==
    LET c == KidsOf(ks, p)
        F[i \in 0..Len(c)] ==
            IF i = 0 THEN <<>>
            ELSE F[i - 1] \o <<c[i]>> \o Descendants(ks, c[i])
    IN  F[Len(c)]

\* node contains other (inclusive)
Contains(ks, node, other) == node = other \/ other \in Range(Descendants(ks, node))

\* parent.appendChild(node), where node does not contain parent
AppendChild(ks, p, n) == [Remove(ks, n) EXCEPT ![p] = Append(@, n)]

RECURSIVE AppendAll(_, _, _, _)
\* parent.append(...nodes)
AppendAll(ks, p, nodes, i) ==
    IF i > Len(nodes) THEN ks
    ELSE AppendAll(AppendChild(ks, p, nodes[i]), p, nodes, i + 1)

-----------------------------------------------------------------------------
(* Errors                                                                  *)

NoError == [name |-> "none", message |-> <<>>, htmlTemplater |-> FALSE]

\* A slip: the message is passed on without its prefix.
ErrorWithoutPrefix(message) ==
    [name |-> "HTMLTemplaterError", message |-> message, htmlTemplater |-> TRUE]

\* new HTMLTemplaterError(htmlTemplater, message)
HTMLTemplaterError(message) ==
    [name |-> "HTMLTemplaterError",
     message |-> <<"HTMLTemplater Error: ">> \o message,
     htmlTemplater |-> TRUE]

\* An error raised by the runtime, not by the templater.
RuntimeError(name) == [name |-> name, message |-> <<>>, htmlTemplater |-> FALSE]

-----------------------------------------------------------------------------
(* The templater                                                           *)

VARIABLES
    pc,             \* "new" before the constructor ran, then "ready" or "failed"
    kids,           \* the DOM: parent -> ordered children
    elem,           \* element data of the created nodes, by node number
    content,        \* template.content: the source fragment's top-level elements
    instances,      \* this.instances
    parent,         \* this.parent
    appendToParent, \* this.appendToParent
    clones,         \* number of fragments cloned so far
    err,            \* the error raised by the last call, or NoError
    lastOp,         \* history: the last call and its arguments
    moved           \* history: appendTo or clear has been called

vars == <<pc, kids, elem, content, instances, parent, appendToParent, clones,
          err, lastOp, moved>>

Op(op, args, target) == [op |-> op, args |-> args, target |-> target]

\* document.querySelector(selector) matches an element of the document
DocMatches(ks, els, r, selector) ==
    CASE selector = "#container" -> r = Other
      [] selector = "#missing"   -> FALSE
      [] OTHER -> Matches(IF r.kind = "node" THEN els[r.n] ELSE StaticEl(r), selector)

\* A slip: a selector that matches nothing falls back to document.body.
querySelectorOrBody(ks, els, selector) ==
    LET order == <<Body>> \o Descendants(ks, Body)
        hits == {i \in DOMAIN order : DocMatches(ks, els, order[i], selector)}
    IN  IF hits = {} THEN Body
        ELSE order[CHOOSE i \in hits : \A j \in hits : i <= j]

\* document.querySelector(selector): the first match in document order
querySelector(ks, els, selector) ==
    LET order == <<Body>> \o Descendants(ks, Body)
        hits == {i \in DOMAIN order : DocMatches(ks, els, order[i], selector)}
    IN  IF hits = {} THEN None
        ELSE order[CHOOSE i \in hits : \A j \in hits : i <= j]

\* The documents of the tests: <body><template>..</template><div
\* id="container"></div></body>, or a template made by createElement and
\* never inserted.
Init ==
    /\ pc = "new"
    /\ \E inDom \in BOOLEAN :
          kids = [p \in {Body, Other, Tpl} |->
                    IF p = Body
                    THEN (IF inDom THEN <<Tpl, Other>> ELSE <<Other>>)
                    ELSE <<>>]
    /\ elem = <<>>
    /\ content \in Sources
    /\ instances = <<>>
    /\ parent = None
    /\ appendToParent = FALSE
    /\ clones = 0
    /\ err = NoError
    /\ lastOp = Op("none", <<>>, "")
    /\ moved = FALSE

\* A slip: appendToParent defaults to false.
AppendToParentDefaultFalse(option) == option = "true"

\* options?.appendToParent ?? true
AppendToParentOption(option) == IF option = "undefined" THEN TRUE ELSE option = "true"

\* A slip: the template is removed only when removeFromDom is given as true.
RemoveFromDomIfTrue(ks, option) == IF option = "true" THEN Remove(ks, Tpl) ELSE ks

\* if (options?.removeFromDom !== false) this.template.remove()
RemoveFromDom(ks, option) == IF option # "false" THEN Remove(ks, Tpl) ELSE ks

\* The template argument of the constructor: a selector or the element.
TemplateArgs == {"template", "#missing", "<element>"}

OptionValues == {"undefined", "true", "false"}

\* constructor(template, options)
Construct(template, optAppend, optRemove) ==
    LET templateEl == IF template = "<element>" THEN Tpl
                      ELSE querySelector(kids, elem, template)
    IN  /\ pc = "new"
        /\ lastOp' = Op("new", <<>>, template)
        /\ UNCHANGED <<elem, content, instances, clones, moved>>
        /\ IF templateEl = None
           THEN /\ pc' = "failed"
                /\ err' = HTMLTemplaterError(
                             <<"Template with query selector \"", template,
                               "\" not found">>)
                /\ UNCHANGED <<kids, parent, appendToParent>>
           ELSE /\ parent' = ParentElementOf(kids, templateEl)
                /\ appendToParent' = AppendToParentOption(optAppend)
                /\ IF appendToParent' /\ parent' = None
                   THEN /\ pc' = "failed"
                        /\ err' = HTMLTemplaterError(
                                     <<"`appendToParent` is true but template doesn't have a parent element">>)
                        /\ UNCHANGED kids
                   ELSE /\ pc' = "ready"
                        /\ err' = NoError
                        /\ kids' = RemoveFromDom(kids, optRemove)

-----------------------------------------------------------------------------
(* instantiate                                                             *)

\* this.template.content.cloneNode(true): a detached deep copy
cloneNode(fragment) == fragment

RECURSIVE ApplyMapperReversed(_, _, _)
\* A slip: the selector keys are taken last to first.
ApplyMapperReversed(clone, mapper, i) ==
    IF i > Len(mapper) THEN [threw |-> FALSE, nodes |-> clone]
    ELSE LET entry == mapper[Len(mapper) + 1 - i]
             matched == {j \in DOMAIN clone : Matches(clone[j], entry.query)}
         IN  IF matched # {} /\ MapperThrows(entry.attributes)
             THEN [threw |-> TRUE, nodes |-> clone]
             ELSE ApplyMapperReversed(
                    [j \in DOMAIN clone |->
                       IF j \in matched
                       THEN applyAttributeMapper(clone[j], entry.attributes)
                       ELSE clone[j]],
                    mapper, i + 1)

RECURSIVE ApplyMapper(_, _, _)
\* The loop of createInstance over Object.entries(mapper): every element
\* that matches the query gets the attribute mapper applied; applying a
\* mapper that is no object raises.
ApplyMapper(clone, mapper, i) ==
    IF i > Len(mapper) THEN [threw |-> FALSE, nodes |-> clone]
    ELSE LET matched == {j \in DOMAIN clone : Matches(clone[j], mapper[i].query)}
         IN  IF matched # {} /\ MapperThrows(mapper[i].attributes)
             THEN [threw |-> TRUE, nodes |-> clone]
             ELSE ApplyMapper(
                    [j \in DOMAIN clone |->
                       IF j \in matched
                       THEN applyAttributeMapper(clone[j], mapper[i].attributes)
                       ELSE clone[j]],
                    mapper, i + 1)

\* createInstance(mapper)
createInstance(fragment, mapper) == ApplyMapper(cloneNode(fragment), mapper, 1)

\* An argument of instantiate: one mapper, or an array of mappers.
Single(m) == [array |-> FALSE, mappers |-> <<m>>]
Array(ms) == [array |-> TRUE, mappers |-> ms]

\* A slip: instantiate without the flat(), so that an array argument is
\* itself taken for a mapper (its keys "0", "1", .. select nothing).
flatForgotten(templateMappers) ==
    [i \in DOMAIN templateMappers |->
       IF templateMappers[i].array THEN <<>> ELSE templateMappers[i].mappers[1]]

RECURSIVE flat(_)
\* templateMappers.flat()
flat(templateMappers) ==
    IF templateMappers = <<>> THEN <<>>
    ELSE Head(templateMappers).mappers \o flat(Tail(templateMappers))

RECURSIVE mapSkipFailed(_, _, _, _)
\* A slip: a mapper that raises is caught and skipped, and the mappers
\* after it are still cloned.
mapSkipFailed(acc, fragment, mappers, i) ==
    IF i > Len(mappers) THEN acc
    ELSE LET f == createInstance(fragment, mappers[i])
             ids == [j \in DOMAIN f.nodes |-> Node(Len(acc.elem) + j)]
         IN  IF f.threw THEN mapSkipFailed(acc, fragment, mappers, i + 1)
             ELSE mapSkipFailed([threw |-> FALSE,
                                 kids |-> (Frag(acc.clones + 1) :> ids)
                                            @@ [n \in Range(ids) |-> <<>>] @@ acc.kids,
                                 elem |-> acc.elem \o f.nodes,
                                 clones |-> acc.clones + 1,
                                 childNodes |-> acc.childNodes \o ids],
                                fragment, mappers, i + 1)

RECURSIVE map(_, _, _, _)
\* templateMappers.flat().map((mapper) => this.createInstance(mapper)):
\* every clone is a new fragment holding new nodes. `acc` collects the DOM
\* with the fragments in it, the element data, and the fragments' child
\* nodes in creation order; a mapper that raises ends the call.
map(acc, fragment, mappers, i) ==
    IF i > Len(mappers) THEN acc
    ELSE LET f == createInstance(fragment, mappers[i])
             ids == [j \in DOMAIN f.nodes |-> Node(Len(acc.elem) + j)]
         IN  IF f.threw THEN [acc EXCEPT !.threw = TRUE]
             ELSE map([threw |-> FALSE,
                       kids |-> (Frag(acc.clones + 1) :> ids)
                                  @@ [n \in Range(ids) |-> <<>>] @@ acc.kids,
                       elem |-> acc.elem \o f.nodes,
                       clones |-> acc.clones + 1,
                       childNodes |-> acc.childNodes \o ids],
                      fragment, mappers, i + 1)

\* this.instances.push(...nodes)
push(list, nodes) == list \o nodes

\* A slip: the new nodes are put in front of the parent's children.
prependFragments(ks, auto, p, nodes) ==
    IF auto /\ p # None
    THEN [q \in DOMAIN ks |->
            IF q = p THEN nodes \o ks[p]
            ELSE SelectSeq(ks[q], LAMBDA c : c \notin Range(nodes))]
    ELSE ks

\* A slip: the appendToParent flag is not consulted.
appendFragmentsAlways(ks, auto, p, nodes) ==
    IF p # None THEN AppendAll(ks, p, nodes, 1) ELSE ks

\* if (this.appendToParent) this.parent?.append(...fragments): the children
\* of the fragments move to the end of the parent, in order
appendFragments(ks, auto, p, nodes) ==
    IF auto /\ p # None THEN AppendAll(ks, p, nodes, 1) ELSE ks

\* instantiate(...templateMappers)
Instantiate(templateMappers) ==
    \E fragments \in {map([threw |-> FALSE, kids |-> kids, elem |-> elem,
                          clones |-> clones, childNodes |-> <<>>],
                         content, flat(templateMappers), 1)} :
        /\ pc = "ready"
        /\ clones + Len(flat(templateMappers)) <= MaxClones
        /\ lastOp' = Op("instantiate", templateMappers, "")
        /\ UNCHANGED <<pc, content, parent, appendToParent, moved>>
        /\ IF fragments.threw
           THEN /\ err' = RuntimeError("TypeError")
                /\ UNCHANGED <<kids, elem, instances, clones>>
           ELSE /\ err' = NoError
                /\ elem' = fragments.elem
                /\ clones' = fragments.clones
                /\ instances' = push(instances, fragments.childNodes)
                /\ kids' = appendFragments(fragments.kids, appendToParent, parent,
                                           fragments.childNodes)

-----------------------------------------------------------------------------
(* appendTo and clear                                                      *)

RECURSIVE AppendLoopReversed(_, _, _, _)
\* A slip: the instances are appended last to first.
AppendLoopReversed(ks, parentNode, list, i) ==
    IF i > Len(list) THEN [threw |-> FALSE, kids |-> ks]
    ELSE IF Contains(ks, list[Len(list) + 1 - i], parentNode)
    THEN [threw |-> TRUE, kids |-> ks]
    ELSE AppendLoopReversed(AppendChild(ks, parentNode, list[Len(list) + 1 - i]),
                            parentNode, list, i + 1)

RECURSIVE AppendLoop(_, _, _, _)
\* for (const instance of this.instances) parentNode.appendChild(instance):
\* appendChild raises when the instance contains the parent node
AppendLoop(ks, parentNode, list, i) ==
    IF i > Len(list) THEN [threw |-> FALSE, kids |-> ks]
    ELSE IF Contains(ks, list[i], parentNode) THEN [threw |-> TRUE, kids |-> ks]
    ELSE AppendLoop(AppendChild(ks, parentNode, list[i]), parentNode, list, i + 1)

\* The arguments of appendTo: a selector, or a node of the document.
Targets == {"#container", "#missing", "input", "template", "<body>"}

\* appendTo(parent)
AppendTo(target) ==
    LET parentNode == IF target = "<body>" THEN Body
                      ELSE querySelector(kids, elem, target)
        loop == AppendLoop(kids, parentNode, instances, 1)
    IN  /\ pc = "ready"
        /\ lastOp' = Op("appendTo", <<>>, target)
        /\ moved' = TRUE
        /\ UNCHANGED <<pc, elem, content, instances, parent, appendToParent, clones>>
        /\ IF parentNode = None
           THEN /\ err' = HTMLTemplaterError(
                             <<"Parent node \"", target, "\" not found">>)
                /\ UNCHANGED kids
           ELSE /\ kids' = loop.kids
                /\ err' = IF loop.threw THEN RuntimeError("HierarchyRequestError")
                          ELSE NoError

\* A slip: clear empties the list without removing the nodes.
RemoveNone(ks, list, i) == ks

RECURSIVE RemoveAll(_, _, _)
\* for (const node of this.instances) node.remove()
RemoveAll(ks, list, i) ==
    IF i > Len(list) THEN ks ELSE RemoveAll(Remove(ks, list[i]), list, i + 1)

\* clear()
Clear ==
    /\ pc = "ready"
    /\ lastOp' = Op("clear", <<>>, "")
    /\ moved' = TRUE
    /\ kids' = RemoveAll(kids, instances, 1)
    /\ instances' = <<>>
    /\ err' = NoError
    /\ UNCHANGED <<pc, elem, content, parent, appendToParent, clones>>

-----------------------------------------------------------------------------
(* Inputs and the specification                                            *)

\* {}: no selector
EmptyMapper == <<>>

\* { "*": { title: (v) => v + "-2" }, input: { "data-id": null },
\*   div: { textContent: "Hello World" } }
EditMapper ==
    << Sel("*", Attrs(<< Attr("title", Fn("suffix")) >>)),
       Sel("input", Attrs(<< Attr("data-id", NullChange) >>)),
       Sel("div", Attrs(<< Attr("textContent", Lit(<<"Hello World">>)) >>)) >>

\* { br: null }
RemoveMapper == << Sel("br", NullMapper) >>

ElementMappers == {EmptyMapper, EditMapper, RemoveMapper}

\* The ways of passing the mappers ms to instantiate: each as its own
\* argument, all in one array, or the first alone and the rest in an array.
Spread(ms) == [i \in DOMAIN ms |-> Single(ms[i])]
Shapes(ms) ==
    {Spread(ms), <<Array(ms)>>}
      \cup (IF ms = <<>> THEN {} ELSE {<<Single(Head(ms)), Array(Tail(ms))>>})

\* The argument lists of instantiate that hold k mappers in all.
ArgLists(k) == UNION {Shapes(ms) : ms \in [1..k -> ElementMappers]}

Next ==
    \/ \E t \in TemplateArgs, a \in OptionValues, r \in OptionValues :
          Construct(t, a, r)
    \/ \E k \in 0..MaxArgs :
          /\ clones + k <= MaxClones
          /\ \E templateMappers \in ArgLists(k) : Instantiate(templateMappers)
    \/ \E target \in Targets : AppendTo(target)
    \/ Clear

Spec == Init /\ [][Next]_vars

-----------------------------------------------------------------------------
(* The mapping engine on the elements and mappers of the tests             *)

\* <input class="item" data-id="0" style="color: red;">
StyledInput ==
    [El("input", <<"item">>, <<"0">>, Empty) EXCEPT !.style["color"] = <<"red">>]

MapSources ==
    { << StyledInput >>,
      << El("br", Null, Null, Empty), StyledInput >>,
      << El("div", Null, Null, <<"Item">>) >> }

\* { input: { style: { background: "blue" } } }
StyleMerge ==
    << Sel("input", Attrs(<< Attr("style", Obj(<< <<"background", <<"blue">>>> >>)) >>)) >>

\* { input: { style: (v) => ({ ...v, background: "blue" }) } }
StyleFn == << Sel("input", Attrs(<< Attr("style", Fn("mergeBackground")) >>)) >>

\* { input: { dataset: { new: "1" } } }
DatasetMerge ==
    << Sel("input", Attrs(<< Attr("dataset", Obj(<< <<"new", <<"1">>>> >>)) >>)) >>

\* { input: { className: "no-class", dataset: { id: "1" },
\*            style: { color: "blue" }, "data-new": "new-value", title: null } }
Overwrite ==
    << Sel("input",
           Attrs(<< Attr("className", Lit(<<"no-class">>)),
                    Attr("dataset", Obj(<< <<"id", <<"1">>>> >>)),
                    Attr("style", Obj(<< <<"color", <<"blue">>>> >>)),
                    Attr("data-new", Lit(<<"new-value">>)),
                    Attr("title", NullChange) >>)) >>

\* { "*": { "data-id": null } }
RemoveDataId == << Sel("*", Attrs(<< Attr("data-id", NullChange) >>)) >>

\* { "*": { class: () => null } }
RemoveClassByFn == << Sel("*", Attrs(<< Attr("class", Fn("toNull")) >>)) >>

\* { input: { style: null } }
RemoveStyle == << Sel("input", Attrs(<< Attr("style", NullChange) >>)) >>

\* { "*": { title: (v) => v + "-2" } }
TitleSuffix == << Sel("*", Attrs(<< Attr("title", Fn("suffix")) >>)) >>

\* { "*": { "data-id": (v) => v + "-2" } }
DataIdSuffix == << Sel("*", Attrs(<< Attr("data-id", Fn("suffix")) >>)) >>

\* { "*": { title: "A" }, input: { title: "B" } } and the same keys the
\* other way round
TitleAB ==
    << Sel("*", Attrs(<< Attr("title", Lit(<<"A">>)) >>)),
       Sel("input", Attrs(<< Attr("title", Lit(<<"B">>)) >>)) >>
TitleBA ==
    << Sel("input", Attrs(<< Attr("title", Lit(<<"B">>)) >>)),
       Sel("*", Attrs(<< Attr("title", Lit(<<"A">>)) >>)) >>

\* { input: { className: "big", class: (v) => v + "-2" } } and the same
\* keys the other way round
ClassThenFn ==
    << Sel("input", Attrs(<< Attr("className", Lit(<<"big">>)),
                             Attr("class", Fn("suffix")) >>)) >>
FnThenClass ==
    << Sel("input", Attrs(<< Attr("class", Fn("suffix")),
                             Attr("className", Lit(<<"big">>)) >>)) >>

\* { input: { classList: ["added"] } }
ClassListArray == << Sel("input", Attrs(<< Attr("classList", Arr(<< <<"added">> >>)) >>)) >>

\* { input: { classList: { item: false, added: true } } }
ClassListMap ==
    << Sel("input",
           Attrs(<< Attr("classList", Obj(<< <<"item", <<"false">>>>,
                                            <<"added", <<"true">>>> >>)) >>)) >>

\* { input: undefined }: a mapper that is no TemplateElementMapper
Malformed == << Sel("input", UndefinedMapper) >>

MapMappers ==
    {StyleMerge, StyleFn, DatasetMerge, Overwrite, RemoveDataId, RemoveClassByFn,
     RemoveStyle, TitleSuffix, DataIdSuffix, TitleAB, TitleBA, ClassThenFn,
     FnThenClass, ClassListArray, ClassListMap, Malformed}

\* The mappers passed two at a time, in one array.
PairMappers == {EmptyMapper, TitleAB, Malformed}

MapInit ==
    /\ pc = "new"
    /\ kids = [p \in {Body, Other, Tpl} |-> IF p = Body THEN <<Tpl, Other>> ELSE <<>>]
    /\ elem = <<>>
    /\ content \in MapSources
    /\ instances = <<>>
    /\ parent = None
    /\ appendToParent = FALSE
    /\ clones = 0
    /\ err = NoError
    /\ lastOp = Op("none", <<>>, "")
    /\ moved = FALSE

MapNext ==
    \/ \E a \in OptionValues : Construct("template", a, "undefined")
    \/ \E m \in MapMappers : Instantiate(<<Single(m)>>)
    \/ \E m1 \in PairMappers, m2 \in PairMappers : Instantiate(<<Array(<<m1, m2>>)>>)

MapSpec == MapInit /\ [][MapNext]_vars

-----------------------------------------------------------------------------
(* Properties                                                              *)

\* The nodes numbered from+1 .. from+n, in order.
NodesFrom(from, n) == [j \in 1..n |-> Node(from + j)]

\* The element data of the nodes in a list.
ElementsOf(els, list) == [i \in DOMAIN list |-> els[list[i].n]]

\* The last n elements of a sequence.
LastN(seq, n) == SubSeq(seq, Len(seq) - n + 1, Len(seq))

\* C1: a call of instantiate with zero arguments produces exactly one clone
\* of the source content: the tracked list grows by the number of top-level
\* nodes of the content, and with auto-append the container gains one
\* structurally identical copy of the content as its last children.
C1_ZeroArgumentsOneClone ==
    [][(lastOp'.op = "instantiate" /\ lastOp'.args = <<>>) =>
         /\ Len(instances') = Len(instances) + Len(content)
         /\ ElementsOf(elem', LastN(instances', Len(content))) = content
         /\ appendToParent =>
               /\ Len(kids'[parent]) = Len(kids[parent]) + Len(content)
               /\ ElementsOf(elem', LastN(kids'[parent], Len(content))) = content]_vars

RECURSIVE Listed(_)
\* The mappers an argument list names, left to right.
Listed(args) ==
    IF args = <<>> THEN <<>>
    ELSE (IF Head(args).array THEN Head(args).mappers ELSE <<Head(args).mappers[1]>>)
           \o Listed(Tail(args))

OriginalChildren(ks) == SelectSeq(ks[Body], LAMBDA c : c.kind # "node")

\* C3: with auto-append, and while neither appendTo nor clear has been
\* called, all produced top-level nodes are the last children of the
\* source's original parent, in creation order (call, then mapper, then
\* node within the clone); the children that were there before, a kept
\* template included, stay in front of them in their order.
C3_AutoAppendedLastInOrder ==
    (pc = "ready" /\ appendToParent /\ ~moved) =>
        /\ parent = Body
        /\ instances = NodesFrom(0, Len(elem))
        /\ kids[Body] = OriginalChildren(kids) \o instances
        /\ OriginalChildren(kids) \in {<<Tpl, Other>>, <<Other>>}

\* C3 witness: two clones of a two-node content were auto-appended behind a
\* template that was kept in the DOM.
C3_Witness ==
    /\ pc = "ready" /\ appendToParent /\ ~moved
    /\ clones = 2 /\ Len(instances) = 4
    /\ kids[Body] = <<Tpl, Other, Node(1), Node(2), Node(3), Node(4)>>

\* C4: without auto-append, an instantiate call changes the children of no
\* node that existed before it, and a produced node comes to lie in a
\* container (a parent that is no fragment) only by an appendTo call.
C4_NoAutoAppendLeavesContainers ==
    [][(pc = "ready" /\ ~appendToParent) =>
         /\ lastOp'.op = "instantiate" => \A p \in DOMAIN kids : kids'[p] = kids[p]
         /\ \A i \in 1..Len(elem') :
               (/\ ParentOf(kids', Node(i)).kind \notin {"fragment", "none"}
                /\ (i > Len(elem)
                      \/ ParentOf(kids, Node(i)).kind \in {"fragment", "none"}))
               => lastOp'.op = "appendTo"]_vars

\* C4 witness: a templater without auto-append has produced nodes, none of
\* which lies in a container, and nothing was appended explicitly.
C4_Witness ==
    /\ pc = "ready" /\ ~appendToParent /\ ~moved
    /\ Len(instances) = 2
    /\ parent = Body
    /\ \A i \in DOMAIN instances : ParentOf(kids, instances[i]).kind = "fragment"

\* The number of places a node occupies in the tree.
Occurrences(ks, n) ==
    Cardinality(UNION {{<<p, i>> : i \in {j \in DOMAIN ks[p] : ks[p][j] = n}} :
                         p \in DOMAIN ks})

\* C5: after an appendTo call that returns, every tracked node has the
\* resolved container as its parent, the tracked nodes are the last
\* children of that container in tracked order, each node lies in the tree
\* once (moved, not copied), the other children of the container keep
\* their order, and the tracked list is unchanged.
C5_AppendToMovesTracked ==
    [][(lastOp'.op = "appendTo" /\ err' = NoError) =>
         LET container == CASE lastOp'.target = "<body>"   -> Body
                            [] lastOp'.target = "template" -> Tpl
                            [] OTHER                       -> Other
             others == SelectSeq(kids[container],
                                 LAMBDA c : c \notin Range(instances))
         IN  /\ lastOp'.target \in {"<body>", "#container", "template"}
             /\ instances' = instances
             /\ kids'[container] = others \o instances
             /\ \A i \in DOMAIN instances :
                   /\ ParentOf(kids', instances[i]) = container
                   /\ Occurrences(kids', instances[i]) = 1]_vars

\* C5 witness: nodes that were auto-appended to the body now lie in the
\* container element, and no longer in the body.
C5_Witness ==
    /\ lastOp.op = "appendTo" /\ lastOp.target = "#container" /\ err = NoError
    /\ appendToParent
    /\ Len(instances) = 4
    /\ kids[Other] = instances
    /\ kids[Body] = <<Other>>

\* C6: a clear call leaves every node that was tracked without a parent,
\* empties the tracked list and leaves the source fragment and the
\* template's place untouched; the cleared nodes are never attached again.
C6_ClearStep ==
    [][lastOp'.op = "clear" =>
         /\ \A i \in DOMAIN instances : ParentOf(kids', instances[i]) = None
         /\ instances' = <<>>
         /\ content' = content
         /\ ParentOf(kids', Tpl) = ParentOf(kids, Tpl)
         /\ \A i \in 1..Len(elem) :
               Node(i) \notin Range(instances) =>
                 ParentOf(kids', Node(i)) = ParentOf(kids, Node(i))]_vars

\* C6 (state form): a node that is no longer tracked has no parent, and has
\* no child either; the source content is cloned unchanged afterwards.
C6_ClearedStayDetached ==
    /\ C6_ClearStep
    /\ [](\A i \in 1..Len(elem) :
            Node(i) \notin Range(instances) =>
              /\ ParentOf(kids, Node(i)) = None
              /\ kids[Node(i)] = <<>>)

\* C6 witness: after a clear, a new instance was made and appended while
\* the cleared nodes stayed out of the tree.
C6_Witness ==
    /\ lastOp.op = "appendTo" /\ err = NoError
    /\ Len(elem) > Len(instances) /\ Len(instances) > 0
    /\ ParentOf(kids, Node(1)) = None
    /\ Node(1) \notin Range(instances)
    /\ ElementsOf(elem, instances) = content

\* The elements of the content that a mapper does not remove: those that
\* no selector mapped to null matches.
Kept(mapper) ==
    SelectSeq(content,
              LAMBDA e : \A i \in DOMAIN mapper :
                           ~(mapper[i].attributes.kind = "null"
                               /\ Matches(e, mapper[i].query)))

RECURSIVE KeptCount(_)
KeptCount(ms) == IF ms = <<>> THEN 0 ELSE Len(Kept(Head(ms))) + KeptCount(Tail(ms))

\* C7: the tracked list is append-only under instantiate: each call appends
\* exactly the top-level nodes of its clones, counted after the removals a
\* null mapper asks for, as new nodes behind those of all earlier calls.
C7_TrackedAppendOnly ==
    [][lastOp'.op = "instantiate" =>
         /\ Len(instances') = Len(instances) + KeptCount(Listed(lastOp'.args))
         /\ SubSeq(instances', 1, Len(instances)) = instances
         /\ \A i \in (Len(instances) + 1)..Len(instances') :
               /\ instances'[i].n > Len(elem)
               /\ \A j \in 1..(i - 1) : instances'[j] # instances'[i]]_vars

\* C8: no call changes the source fragment, and the template's place in
\* the tree changes at construction only: the constructor detaches it
\* unless removeFromDom is false, in which case it stays where it is, as
\* the first child of its parent; a failed construction leaves the tree
\* alone.
C8_SourceNeverChanges ==
    [][/\ content' = content
       /\ pc = "ready" =>
             /\ ParentOf(kids', Tpl) = ParentOf(kids, Tpl)
             /\ ParentOf(kids, Tpl) = Body => kids'[Body][1] = Tpl
       /\ \A t \in TemplateArgs, a \in OptionValues, r \in OptionValues :
             Construct(t, a, r) =>
               /\ pc' = "ready" =>
                     /\ ParentOf(kids', Tpl) =
                          (IF r = "false" THEN ParentOf(kids, Tpl) ELSE None)
                     /\ kids'[Body] = (IF r = "false" THEN kids[Body] ELSE <<Other>>)
               /\ pc' = "failed" => kids' = kids]_vars

\* C8 witness: the template was kept in the DOM, instances were made, moved
\* into the template element itself and cleared, and the template is still
\* the first child of the body.
C8_Witness ==
    /\ pc = "ready" /\ moved /\ lastOp.op = "appendTo" /\ lastOp.target = "template"
    /\ err = NoError
    /\ kids[Body][1] = Tpl
    /\ Len(elem) > Len(instances) /\ Len(instances) > 0
    /\ kids[Tpl] = instances

\* The selector matches no element of the document.
Unmatched(ks, selector) ==
    \/ selector = "#missing"
    \/ selector = "template" /\ ParentOf(ks, Tpl) = None

\* C9: constructing with a selector that matches no element raises an
\* HTMLTemplaterError whose message names the selector, and changes
\* nothing in the tree.
C9_SourceNotFound ==
    [][\A t \in {"template", "#missing"}, a \in OptionValues, r \in OptionValues :
         (Construct(t, a, r) /\ Unmatched(kids, t)) =>
           /\ pc' = "failed"
           /\ err' = [name |-> "HTMLTemplaterError",
                      message |-> <<"HTMLTemplater Error: ",
                                    "Template with query selector \"", t,
                                    "\" not found">>,
                      htmlTemplater |-> TRUE]
           /\ kids' = kids
           /\ instances' = <<>>]_vars

\* C9 witness: a construction with the selector #missing has failed.
C9_Witness ==
    /\ pc = "failed" /\ lastOp.op = "new" /\ lastOp.target = "#missing"
    /\ err.name = "HTMLTemplaterError"

\* C10: constructing from a template element that has no parent raises an
\* HTMLTemplaterError when appendToParent is true or left to its default,
\* and succeeds when appendToParent is false.
C10_NoContainer ==
    [][\A a \in OptionValues, r \in OptionValues :
         (Construct("<element>", a, r) /\ ParentOf(kids, Tpl) = None) =>
           IF a \in {"undefined", "true"}
           THEN /\ pc' = "failed"
                /\ err' = [name |-> "HTMLTemplaterError",
                           message |-> <<"HTMLTemplater Error: ",
                                         "`appendToParent` is true but template doesn't have a parent element">>,
                           htmlTemplater |-> TRUE]
                /\ kids' = kids
           ELSE /\ pc' = "ready"
                /\ err' = NoError
                /\ ~appendToParent'
                /\ parent' = None]_vars

\* C10 witness: a parentless template element was given to the
\* constructor with auto-append on, and the construction failed.
C10_Witness ==
    /\ pc = "failed" /\ lastOp.op = "new" /\ lastOp.target = "<element>"
    /\ ParentOf(kids, Tpl) = None
    /\ err.name = "HTMLTemplaterError"

\* The destination of an appendTo call denotes a node of the document: the
\* body itself, the container element, a template that is still in the
\* document, or an input element that lies in the document.
Resolvable(ks, els, target) ==
    CASE target = "<body>"     -> TRUE
      [] target = "#container" -> ParentOf(ks, Other) # None
      [] target = "template"   -> ParentOf(ks, Tpl) # None
      [] target = "input"      ->
            \E i \in 1..Len(els) :
                els[i].tag = "input" /\ Contains(ks, Body, Node(i))
      [] OTHER                 -> FALSE

\* C11: an appendTo call whose destination cannot be resolved raises, in
\* that call, an HTMLTemplaterError that carries the templater and names
\* the destination, and moves no node: the tracked list, the parent of
\* every tracked node and every child list are as before the call.
C11_TargetNotFound ==
    [][(lastOp'.op = "appendTo" /\ ~Resolvable(kids, elem, lastOp'.target)) =>
         /\ err' = [name |-> "HTMLTemplaterError",
                    message |-> <<"HTMLTemplater Error: ", "Parent node \"",
                                  lastOp'.target, "\" not found">>,
                    htmlTemplater |-> TRUE]
         /\ instances' = instances
         /\ \A i \in DOMAIN instances :
               ParentOf(kids', instances[i]) = ParentOf(kids, instances[i])
         /\ kids' = kids]_vars

\* C11 witness: appendTo("#missing") has raised on a templater without
\* auto-append whose tracked nodes still lie in their fragments.
C11_Witness ==
    /\ lastOp.op = "appendTo" /\ lastOp.target = "#missing"
    /\ err.name = "HTMLTemplaterError" /\ err.htmlTemplater
    /\ ~appendToParent
    /\ Len(instances) = 2
    /\ \A i \in DOMAIN instances : ParentOf(kids, instances[i]).kind = "fragment"

RECURSIVE WithRemovals(_, _, _)
\* What a mapper makes of a clone when a selector mapped to null removes
\* the elements it matches at once: the entries are taken in key order, a
\* null entry drops its matches, and a later entry sees what is left.
WithRemovals(clone, mapper, i) ==
    IF i > Len(mapper) THEN clone
    ELSE IF mapper[i].attributes.kind = "null"
    THEN WithRemovals(SelectSeq(clone, LAMBDA e : ~Matches(e, mapper[i].query)),
                      mapper, i + 1)
    ELSE WithRemovals([j \in DOMAIN clone |->
                         IF Matches(clone[j], mapper[i].query)
                         THEN applyAttributeMapper(clone[j], mapper[i].attributes)
                         ELSE clone[j]],
                      mapper, i + 1)

RECURSIVE Produced(_)
\* The top-level elements of the clones of the mappers ms, in order.
Produced(ms) ==
    IF ms = <<>> THEN <<>>
    ELSE WithRemovals(content, Head(ms), 1) \o Produced(Tail(ms))

\* C12: a selector mapped to null removes every element it matches from
\* the clone at once: the instances an instantiate call produces are the
\* clones without those elements, and no later selector of the same mapper
\* reaches a removed element.
C12_NullMapperRemovesElement ==
    [][lastOp'.op = "instantiate" =>
         LET produced == Produced(Listed(lastOp'.args))
         IN  /\ Len(instances') = Len(instances) + Len(produced)
             /\ ElementsOf(elem', LastN(instances', Len(produced))) = produced]_vars

\* The step is an instantiate call with one mapper that returned.
OneMapperCall == lastOp'.op = "instantiate" /\ err' = NoError /\ Len(lastOp'.args) = 1
                 /\ ~lastOp'.args[1].array

\* The object an entry of a mapper resolves to on the element e.
ResolvedObject(e, entry) ==
    IF entry.value.kind = "function"
    THEN CallFn(entry.value.val[1], CurrentValue(e, entry.attribute))
    ELSE entry.value

\* The value an object gives a key (the last one, if it has several), and
\* whether it names the key at all.
Names(object, k) == \E n \in DOMAIN object : object[n][1] = k
ValueOf(object, k) ==
    object[CHOOSE n \in DOMAIN object :
             /\ object[n][1] = k
             /\ \A o \in DOMAIN object : object[o][1] = k => o <= n][2]

\* C13: a style or dataset change that resolves to an object is merged
\* onto what the element has: every key the object names has the object's
\* value afterwards, and every style declaration or data attribute it does
\* not name (and no other entry of the mapper sets) is as it was before.
C13_StyleAndDatasetMerge ==
    [][OneMapperCall =>
         LET mapper == lastOp'.args[1].mappers[1]
         IN  \A j \in DOMAIN content, s \in DOMAIN mapper :
               (Matches(content[j], mapper[s].query)
                  /\ mapper[s].attributes.kind = "attrs") =>
               LET before == content[j]
                   after == elem'[Len(elem) + j]
                   entries == mapper[s].attributes.entries
               IN  \A a \in DOMAIN entries :
                     LET object == ResolvedObject(before, entries[a])
                     IN  /\ (entries[a].attribute = "style" /\ object.kind = "object") =>
                               \A k \in StyleKeys :
                                 after.style[k] = IF Names(object.obj, k)
                                                  THEN ValueOf(object.obj, k)
                                                  ELSE before.style[k]
                         /\ (entries[a].attribute = "dataset" /\ object.kind = "object") =>
                               \A k \in {"id", "new"} :
                                 IF Names(object.obj, k)
                                 THEN after.attrs["data-" \o k] = ValueOf(object.obj, k)
                                 ELSE (\A o \in DOMAIN entries :
                                          entries[o].attribute # "data-" \o k)
                                      => after.attrs["data-" \o k]
                                           = before.attrs["data-" \o k]]_vars

\* C13 witness: { style: { background: "blue" } } was applied to the input
\* with the inline style color: red, and the clone has both declarations.
C13_Witness ==
    /\ lastOp.op = "instantiate" /\ err = NoError
    /\ lastOp.args = <<Single(StyleMerge)>>
    /\ elem[Len(elem)].tag = "input"
    /\ elem[Len(elem)].style = [color |-> <<"red">>, background |-> <<"blue">>]

\* The classes of an element: the names in its class attribute.
ClassSet(e) == IF e.attrs["class"] = Null THEN {} ELSE Range(e.attrs["class"])

\* The class names an array lists, and those an object maps to a boolean.
ListedClasses(items) == UNION {Range(items[n][2]) : n \in DOMAIN items}
MappedTo(object, b) == {object[n][1] : n \in {o \in DOMAIN object : object[o][2] = <<b>>}}

\* C14: a classList change removes no class that is not mapped to false:
\* an array adds the classes it lists and keeps the classes the element
\* has; a map from class name to boolean adds the classes mapped to true,
\* removes those mapped to false and leaves the others.
C14_ClassListKeepsClasses ==
    [][OneMapperCall =>
         LET mapper == lastOp'.args[1].mappers[1]
         IN  \A j \in DOMAIN content, s \in DOMAIN mapper :
               (Matches(content[j], mapper[s].query)
                  /\ mapper[s].attributes.kind = "attrs") =>
               LET before == content[j]
                   after == elem'[Len(elem) + j]
                   entries == mapper[s].attributes.entries
               IN  \A a \in DOMAIN entries :
                     entries[a].attribute = "classList" =>
                       /\ entries[a].value.kind = "array" =>
                             ClassSet(after) = ClassSet(before)
                                                 \cup ListedClasses(entries[a].value.obj)
                       /\ entries[a].value.kind = "object" =>
                             ClassSet(after) =
                               (ClassSet(before)
                                  \cup MappedTo(entries[a].value.obj, "true"))
                                 \ MappedTo(entries[a].value.obj, "false")]_vars

\* The content attribute a name stands for, and whether the name is a
\* property of the element.
IsProperty(attribute) == attribute \in {"className", "title"}
AttributeOf(attribute) == IF attribute = "className" THEN "class" ELSE attribute

\* What the element holds under a name: its live property (a string, empty
\* when the attribute is absent) for a property, else its attribute value
\* (null when absent).
LiveValue(e, attribute) ==
    IF IsProperty(attribute)
    THEN (IF e.attrs[AttributeOf(attribute)] = Null THEN Empty
          ELSE e.attrs[AttributeOf(attribute)])
    ELSE e.attrs[attribute]

\* What the functions of the mappers return for an argument.
Returned(f, argument) ==
    IF f = "toNull" THEN Null
    ELSE (IF argument = Null THEN <<"null">> ELSE argument) \o <<"-2">>

\* C15: a function given as the change of an attribute is called for each
\* matched element with what that element holds under the name at that
\* moment (the live property for a property name, else the attribute
\* value), the entries before it in the mapper having been applied, and
\* what it returns is assigned, or the attribute removed if it is null.
C15_FunctionGetsCurrentValue ==
    [][OneMapperCall =>
         LET mapper == lastOp'.args[1].mappers[1]
         IN  \A j \in DOMAIN content :
               (/\ Len(mapper) = 1
                /\ Matches(content[j], mapper[1].query)
                /\ mapper[1].attributes.kind = "attrs"
                /\ mapper[1].attributes.entries # <<>>) =>
               LET entries == mapper[1].attributes.entries
                   last == entries[Len(entries)]
                   current == ApplyEntries(content[j],
                                           SubSeq(entries, 1, Len(entries) - 1), 1)
                   after == elem'[Len(elem) + j]
               IN  (/\ last.value.kind = "function"
                    /\ AttributeOf(last.attribute) \in AttrNames) =>
                     after = [current EXCEPT
                                !.attrs[AttributeOf(last.attribute)] =
                                   Returned(last.value.val[1],
                                            LiveValue(current, last.attribute))]]_vars

\* C15 witness: in { className: "big", class: (v) => v + "-2" } the function
\* was called with the class the entry before it had set.
C15_Witness ==
    /\ lastOp.op = "instantiate" /\ err = NoError
    /\ lastOp.args = <<Single(ClassThenFn)>>
    /\ elem[Len(elem)].tag = "input"
    /\ elem[Len(elem)].attrs["class"] = <<"big", "-2">>

\* The change resolves to null: it is null, or a function that returns it.
ResolvesToNull(value) ==
    value.kind = "null" \/ (value.kind = "function" /\ value.val = <<"toNull">>)

\* C16: a change that resolves to null, given as null or returned by a
\* function, removes the named attribute from the matched element and
\* leaves everything else of the element as it was; where the element has
\* no such attribute it is unchanged, and the call returns without error.
C16_NullRemovesAttribute ==
    [][(lastOp'.op = "instantiate" /\ Len(lastOp'.args) = 1
          /\ ~lastOp'.args[1].array) =>
         LET mapper == lastOp'.args[1].mappers[1]
         IN  \A j \in DOMAIN content :
               (/\ Len(mapper) = 1
                /\ Matches(content[j], mapper[1].query)
                /\ mapper[1].attributes.kind = "attrs"
                /\ mapper[1].attributes.entries # <<>>) =>
               LET entries == mapper[1].attributes.entries
                   last == entries[Len(entries)]
                   current == ApplyEntries(content[j],
                                           SubSeq(entries, 1, Len(entries) - 1), 1)
               IN  ResolvesToNull(last.value) =>
                     /\ err' = NoError
                     /\ Len(elem') = Len(elem) + Len(content)
                     /\ LET after == elem'[Len(elem) + j]
                        IN  /\ after.tag = current.tag
                            /\ after.text = current.text
                            /\ \A b \in AttrNames :
                                  after.attrs[b] = IF b = last.attribute THEN Null
                                                   ELSE current.attrs[b]
                            /\ \A k \in StyleKeys :
                                  after.style[k] = IF last.attribute = "style" THEN Null
                                                   ELSE current.style[k]
                            /\ (last.attribute \in AttrNames
                                  /\ current.attrs[last.attribute] = Null)
                                 => after = current]_vars

\* C16 witness: { "*": { "data-id": null } } was applied to <br> and the
\* input: the br, which has no data-id, is as in the source, and the input
\* has lost its data-id and nothing else.
C16_Witness ==
    /\ lastOp.op = "instantiate" /\ err = NoError
    /\ lastOp.args = <<Single(RemoveDataId)>>
    /\ Len(content) = 2
    /\ elem[Len(elem) - 1] = content[1]
    /\ content[2].attrs["data-id"] = <<"0">>
    /\ elem[Len(elem)] = [content[2] EXCEPT !.attrs["data-id"] = Null]

\* The mapping of a mapper raises: one of its selectors matches an element
\* of the content and has a value that is no object of attribute entries.
Raises(mapper) ==
    \E s \in DOMAIN mapper :
        /\ mapper[s].attributes.kind # "attrs"
        /\ \E j \in DOMAIN content : Matches(content[j], mapper[s].query)

\* C17 (as claimed): when the mapping of one mapper of an instantiate call
\* raises, the clones of the other mappers of the call are still produced,
\* tracked and, with auto-append, inserted.
C17_OtherClonesSurvive ==
    [][lastOp'.op = "instantiate" =>
         LET ms == Listed(lastOp'.args)
             others == {i \in DOMAIN ms : ~Raises(ms[i])}
         IN  /\ Len(instances') = Len(instances) + Cardinality(others) * Len(content)
             /\ appendToParent =>
                   Len(kids'[parent]) = Len(kids[parent])
                                          + Cardinality(others) * Len(content)]_vars

\* C17 (amended): when the mapping of one mapper of an instantiate call
\* raises, the call raises that error and no clone of the call, those of
\* its other mappers included, is tracked or inserted: the tracked list
\* and the tree are as before the call.
C17_RaisingMapperAbortsCall ==
    [][(lastOp'.op = "instantiate"
          /\ \E i \in DOMAIN Listed(lastOp'.args) : Raises(Listed(lastOp'.args)[i])) =>
         /\ err' = [name |-> "TypeError", message |-> <<>>, htmlTemplater |-> FALSE]
         /\ instances' = instances
         /\ kids' = kids
         /\ \A i \in DOMAIN instances :
               ParentOf(kids', instances[i]) = ParentOf(kids, instances[i])]_vars

\* C17 witness: instantiate([{}, { input: undefined }]) has raised on a
\* templater with auto-append, and the clone of {} is neither tracked nor
\* in the body.
C17_Witness ==
    /\ lastOp.op = "instantiate"
    /\ lastOp.args = <<Array(<<EmptyMapper, Malformed>>)>>
    /\ err.name = "TypeError"
    /\ appendToParent
    /\ instances = <<>>
    /\ kids[Body] = <<Other>>

\* An entry for the name `attribute` writes the content attribute b.
Touches(attribute, b) ==
    \/ AttributeOf(attribute) = b
    \/ attribute = "classList" /\ b = "class"
    \/ attribute = "dataset" /\ b \in {"data-id", "data-new"}

\* The places <<selector key, attribute key>> of a mapper that write the
\* attribute b of the element e, and the order in which the keys are
\* written in the mapper.
Writers(mapper, e, b) ==
    {w \in UNION {{<<s, a>> : a \in DOMAIN mapper[s].attributes.entries} :
                    s \in DOMAIN mapper} :
        /\ Matches(e, mapper[w[1]].query)
        /\ Touches(mapper[w[1]].attributes.entries[w[2]].attribute, b)}
KeyOrder(v, w) == v[1] < w[1] \/ (v[1] = w[1] /\ v[2] <= w[2])

\* C18: the selector keys of a mapper are applied in the order the mapper
\* lists them, and the attribute keys of a selector in their order: the
\* value an attribute ends with is that of the last key, in that order,
\* that writes it, whatever the keys' names; an attribute no key writes is
\* as in the source.
C18_LastAppliedKeyWins ==
    [][OneMapperCall =>
         LET mapper == lastOp'.args[1].mappers[1]
         IN  \A j \in DOMAIN content, b \in AttrNames :
               LET writers == Writers(mapper, content[j], b)
                   after == elem'[Len(elem) + j]
               IN  IF writers = {}
                   THEN after.attrs[b] = content[j].attrs[b]
                   ELSE LET w == CHOOSE w \in writers :
                                   \A v \in writers : KeyOrder(v, w)
                            last == mapper[w[1]].attributes.entries[w[2]]
                        IN  last.value.kind = "literal" =>
                              after.attrs[b] = last.value.val]_vars

\* C18 witness: in { input: { title: "B" }, "*": { title: "A" } } both keys
\* match the input, and its title is that of the key listed last, "*".
C18_Witness ==
    /\ lastOp.op = "instantiate" /\ err = NoError
    /\ lastOp.args = <<Single(TitleBA)>>
    /\ elem[Len(elem)].tag = "input"
    /\ elem[Len(elem)].attrs["title"] = <<"A">>

====
